---- MODULE Spec2Model ----
(***************************************************************************)
(* Model of reqwest-middleware's client (src/reqwest-middleware/src/       *)
(* client.rs): ClientBuilder, ClientWithMiddleware, RequestBuilder and the *)
(* terminal ReqwestService.                                                *)
(*                                                                         *)
(* A client is configured with `with` / `with_init`, frozen with `build`,  *)
(* and then hands out RequestBuilders (`request`).  A RequestBuilder is    *)
(* mutated by the fluent setters, may be cloned (`try_clone`) and is       *)
(* consumed by `send`, which materializes the request, wraps the transport *)
(* unit in the middleware stack and drives the composed call chain.        *)
(*                                                                         *)
(* The traits Layer / Service / RequestInitialiser and their impls for     *)
(* Identity, Stack and RequestStack live in the crate root, which is not   *)
(* part of the analysed sources; they are modelled from the specification  *)
(* (sections 4.2 - 4.4).  User middleware and user initialisers are the    *)
(* environment: their behaviour is drawn from small sets.                  *)
(***************************************************************************)
EXTENDS Integers, Sequences, FiniteSets, TLC

\* ------------------------------------------------------------------ bounds
MaxLayers   == 2    \* middleware layers registered with `with`
MaxInits    == 2    \* initialisers registered with `with_init`
MaxBuilders == 2    \* RequestBuilders created (request + try_clone)
MaxMut      == 1    \* caller mutations applied to RequestBuilders, in total
MaxRetries  == 1    \* repeated inward calls made by the stages of one send

\* ------------------------------------------------------------ value spaces
\* Type identities of the values kept in an Extensions bag.
Types == {"A", "B"}

\* What a user initialiser does to (request-builder, bag): insert a value of
\* type A, insert a value of type B, or set a header whose value is invalid.
InitEffects == {"extA", "extB", "badheader"}

\* A bag slot: who inserted the value (by/id) and on behalf of which
\* RequestBuilder the insert ran (owner).  `Absent` is the empty slot.
Absent == [by |-> "none", id |-> 0, owner |-> 0]
Val(by, id, owner) == [by |-> by, id |-> id, owner |-> owner]

\* Result<Response, Error>; `by` names the middleware that made the error.
NoResult == [kind |-> "none", by |-> 0]
Response == [kind |-> "Response", by |-> 0]
Err(kind, by) == [kind |-> kind, by |-> by]
IsErr(r) == r.kind \in {"Build", "Middleware", "Transport"}

\* An event of a RequestBuilder's history (observation only).
Ev(ev, id, res) == [ev |-> ev, id |-> id, res |-> res]
E0(ev) == Ev(ev, 0, NoResult)

\* -------------------------------------------------------------- Extensions
\* Extensions::new()
Extensions_new == [t \in Types |-> Absent]

\* Extensions::insert: one slot per type, a new value replaces the old one.
insert(ext, t, v) == [ext EXCEPT ![t] = v]

\* ------------------------------------------------- Identity, Stack, Layer
Identity == [kind |-> "Identity"]

\* A user middleware layer, named by its registration index.
UserLayer(k) == [kind |-> "UserLayer", id |-> k]

\* A user initialiser, named by its registration index, with its effect.
UserInit(k, eff) == [kind |-> "UserInit", id |-> k, eff |-> eff]

\* Number of user elements held by a (Request)Stack.
RECURSIVE Size(_)
Size(s) ==
  CASE s.kind = "Identity" -> 0
    [] s.kind = "Stack"    -> Size(s.inner) + Size(s.outer)
    [] OTHER               -> 1

\* Mutant of `with`: the new layer is stored as the outer element.
with_swapped(middleware_stack, layer) ==
  [kind |-> "Stack", inner |-> middleware_stack, outer |-> layer]

\* ClientBuilder::with: Stack { inner: layer, outer: self.middleware_stack }
with(middleware_stack, layer) ==
  [kind |-> "Stack", inner |-> layer, outer |-> middleware_stack]

\* ClientBuilder::with_init:
\*   RequestStack { inner: initialiser, outer: self.initialiser_stack }
with_init(initialiser_stack, initialiser) ==
  [kind |-> "Stack", inner |-> initialiser, outer |-> initialiser_stack]

\* A reqwest::Client: a handle to a connection pool.  NoClient stands for a
\* handle that was moved away.
reqwest_Client == [pool |-> "pool"]
NoClient == [pool |-> "none"]

\* reqwest::Client::clone: another handle to the same pool; the handle cloned
\* is left as it was.
Client_clone(inner) == [pool |-> inner.pool]

\* The terminal unit of work, built by send as
\* ReqwestService(client.inner.clone()): it holds a handle of its own.
ReqwestService(inner) == [kind |-> "ReqwestService", client |-> inner]

\* Layer::layer.  Identity returns the service unchanged; a Stack wraps with
\* its inner element first and its outer element around that; a user layer
\* yields a new service around the given one.
RECURSIVE layer(_, _)
layer(l, service) ==
  CASE l.kind = "Identity" -> service
    [] l.kind = "Stack"    -> layer(l.outer, layer(l.inner, service))
    [] OTHER               -> [kind |-> "Middleware", id |-> l.id, next |-> service]

\* The Client handle held by the transport unit of a composed service.
RECURSIVE TransportOf(_)
TransportOf(svc) ==
  IF svc.kind = "ReqwestService" THEN svc.client ELSE TransportOf(svc.next)

\* The stages of a composed service, outermost first; 0 is the transport.
RECURSIVE Chain(_)
Chain(svc) ==
  IF svc.kind = "ReqwestService" THEN <<0>>
  ELSE <<svc.id>> \o Chain(svc.next)

\* --------------------------------------------------- reqwest::RequestBuilder
\* The wrapped builder: `failed` once a mutation or the URL was invalid
\* (build() then returns Err), and the kind of body it carries.
\* Client::request(method, url)
reqwest_request(urlOk) == [failed |-> ~urlOk, body |-> "none"]

\* reqwest::RequestBuilder::header: an invalid name/value puts the builder in
\* the failed state; a failed builder ignores further mutations.
reqwest_header(inner, valid) ==
  IF inner.failed \/ valid THEN inner ELSE [inner EXCEPT !.failed = TRUE]

\* reqwest::RequestBuilder::body
reqwest_body(inner, kind) ==
  IF inner.failed THEN inner ELSE [inner EXCEPT !.body = kind]

\* reqwest::RequestBuilder::try_clone: None (FALSE) for a failed builder or a
\* streaming body.
reqwest_can_clone(inner) == ~inner.failed /\ inner.body # "stream"

\* ------------------------------------------------------ RequestInitialiser
\* A user initialiser applied to st = [req, ext, ran] for builder `owner`.
UserInit_init(i, st, owner) ==
  [ req |-> IF i.eff = "badheader" THEN reqwest_header(st.req, FALSE) ELSE st.req,
    ext |-> CASE i.eff = "extA" -> insert(st.ext, "A", Val("init", i.id, owner))
              [] i.eff = "extB" -> insert(st.ext, "B", Val("init", i.id, owner))
              [] OTHER          -> st.ext,
    ran |-> Append(st.ran, i.id) ]

\* RequestInitialiser::init.  Identity returns the builder unchanged; a
\* RequestStack follows the combination law of the middleware Stack: the
\* inner element is applied to the builder, the outer element to its result.
RECURSIVE init(_, _, _)
init(i, st, owner) ==
  CASE i.kind = "Identity" -> st
    [] i.kind = "Stack"    -> init(i.outer, init(i.inner, st, owner), owner)
    [] OTHER               -> UserInit_init(i, st, owner)

\* ------------------------------------------------------------------- state
VARIABLES
  client,             \* ClientBuilder.client / ClientWithMiddleware.inner
  built,              \* FALSE: still a ClientBuilder; TRUE: ClientWithMiddleware
  middleware_stack,   \* ClientBuilder / ClientWithMiddleware .middleware_stack
  initialiser_stack,  \* ClientBuilder / ClientWithMiddleware .initialiser_stack
  builders,           \* the RequestBuilders created so far, by creation index
  exts,               \* the Extensions instances created so far, by identity
  run,                \* per RequestBuilder: position of its send() call chain
  log,                \* per RequestBuilder: history of what happened to it
  lastClone           \* the latest try_clone call: its receiver and result

vars == <<built, client, middleware_stack, initialiser_stack, builders, exts,
          run, log, lastClone>>

Bs == 1..Len(builders)

\* The call chain of a builder that has not been sent.
NotSent ==
  [pc |-> "builder", chain |-> <<>>, transport |-> NoClient, depth |-> 0,
   ret |-> NoResult, ext |-> 0]

\* Caller mutations recorded so far, over all builders (bounded by MaxMut).
NumMut ==
  Cardinality({p \in UNION {{<<b, k>> : k \in 1..Len(log[b])} : b \in Bs} :
                 log[p[1]][p[2]].ev = "mutate"})

\* ClientBuilder::new(client)
Init ==
  /\ built = FALSE
  /\ client = reqwest_Client
  /\ middleware_stack = Identity
  /\ initialiser_stack = Identity
  /\ builders = <<>>
  /\ exts = <<>>
  /\ run = <<>>
  /\ log = <<>>
  /\ lastClone = [of |-> 0, got |-> 0]

\* ------------------------------------------------------- ClientBuilder
\* ClientBuilder::with(layer)
With ==
  /\ ~built
  /\ Size(middleware_stack) < MaxLayers
  /\ middleware_stack' =
       with(middleware_stack, UserLayer(Size(middleware_stack) + 1))
  /\ UNCHANGED <<built, client, initialiser_stack, builders, exts, run, log, lastClone>>

\* ClientBuilder::with_init(initialiser)
WithInit(effects) ==
  /\ ~built
  /\ Size(initialiser_stack) < MaxInits
  /\ \E eff \in effects :
       initialiser_stack' =
         with_init(initialiser_stack, UserInit(Size(initialiser_stack) + 1, eff))
  /\ UNCHANGED <<built, client, middleware_stack, builders, exts, run, log, lastClone>>

\* ClientBuilder::build()
Build ==
  /\ ~built
  /\ built' = TRUE
  /\ UNCHANGED <<client, middleware_stack, initialiser_stack, builders, exts,
                 run, log, lastClone>>

\* ------------------------------------------------ ClientWithMiddleware
\* Mutant of `request`: the builder is given another new Extensions instance
\* than the one the initialiser chain wrote to.
request_fresh_bag(inits, urlOk, b, heap) ==
  LET st == init(inits, [req |-> reqwest_request(urlOk),
                         ext |-> Extensions_new, ran |-> <<>>], b)
  IN  [ builder |-> [inner |-> st.req, extensions |-> Len(heap) + 2,
                     origin |-> "request"],
        heap    |-> heap \o <<st.ext, Extensions_new>>,
        ran     |-> st.ran ]

\* Mutant of `request`: one Extensions instance, kept with the client, is
\* handed to every builder.
request_shared_bag(inits, urlOk, b, heap) ==
  LET old == IF heap = <<>> THEN Extensions_new ELSE heap[1]
      st  == init(inits, [req |-> reqwest_request(urlOk),
                          ext |-> old, ran |-> <<>>], b)
  IN  [ builder |-> [inner |-> st.req, extensions |-> 1, origin |-> "request"],
        heap    |-> IF heap = <<>> THEN <<st.ext>> ELSE [heap EXCEPT ![1] = st.ext],
        ran     |-> st.ran ]

\* Mutant of `request`: the initialiser chain is not applied.
request_no_init(inits, urlOk, b, heap) ==
  [ builder |-> [inner |-> reqwest_request(urlOk), extensions |-> Len(heap) + 1,
                 origin |-> "request"],
    heap    |-> Append(heap, Extensions_new),
    ran     |-> <<>> ]

\* Mutant of `request`: the initialiser chain is applied twice.
request_init_twice(inits, urlOk, b, heap) ==
  LET st == init(inits, init(inits, [req |-> reqwest_request(urlOk),
                         ext |-> Extensions_new, ran |-> <<>>], b), b)
  IN  [ builder |-> [inner |-> st.req, extensions |-> Len(heap) + 1,
                     origin |-> "request"],
        heap    |-> Append(heap, st.ext),
        ran     |-> st.ran ]

\* ClientWithMiddleware::request, as a function of the client's initialiser
\* stack, the URL's validity, the index b of the builder being created and
\* the Extensions instances that exist: a new Extensions instance is
\* created, the initialiser chain runs on the reqwest builder and on that
\* instance, and the RequestBuilder owns that very instance.
request(inits, urlOk, b, heap) ==
  LET e  == Len(heap) + 1
      st == init(inits, [req |-> reqwest_request(urlOk),
                         ext |-> Extensions_new, ran |-> <<>>], b)
  IN  [ builder |-> [inner |-> st.req, extensions |-> e, origin |-> "request"],
        heap    |-> Append(heap, st.ext),
        ran     |-> st.ran ]

Request(limit, urls) ==
  /\ built
  /\ Len(builders) < limit
  /\ \E urlOk \in urls :
       LET b == Len(builders) + 1
           r == request(initialiser_stack, urlOk, b, exts)
       IN  /\ builders' = Append(builders, r.builder)
           /\ exts' = r.heap
           /\ run' = Append(run, NotSent)
           /\ log' = Append(log, <<E0("new")>> \o
                        [k \in 1..Len(r.ran) |-> Ev("init", r.ran[k], NoResult)])
  /\ UNCHANGED <<built, client, middleware_stack, initialiser_stack, lastClone>>

\* -------------------------------------------------------- RequestBuilder
\* RequestBuilder::header (and the other pass-through setters that can put
\* the wrapped builder in the failed state).
Header(b, valids) ==
  /\ run[b].pc = "builder"
  /\ NumMut < MaxMut
  /\ \E valid \in valids :
       builders' = [builders EXCEPT ![b].inner = reqwest_header(@, valid)]
  /\ log' = [log EXCEPT ![b] = Append(@, E0("mutate"))]
  /\ UNCHANGED <<built, client, middleware_stack, initialiser_stack, exts, run, lastClone>>

\* RequestBuilder::body
Body(b, kinds) ==
  /\ run[b].pc = "builder"
  /\ NumMut < MaxMut
  /\ \E kind \in kinds :
       builders' = [builders EXCEPT ![b].inner = reqwest_body(@, kind)]
  /\ log' = [log EXCEPT ![b] = Append(@, E0("mutate"))]
  /\ UNCHANGED <<built, client, middleware_stack, initialiser_stack, exts, run, lastClone>>

\* Mutant of `with_extension`: a slot that is taken keeps its value.
with_extension_keeps_first(builder, heap, t, b) ==
  IF heap[builder.extensions][t] # Absent THEN heap
  ELSE [heap EXCEPT ![builder.extensions] = insert(@, t, Val("caller", 0, b))]

\* RequestBuilder::with_extension: self.extensions.insert(extension)
with_extension(builder, heap, t, b) ==
  [heap EXCEPT ![builder.extensions] = insert(@, t, Val("caller", 0, b))]

WithExtension(b, types) ==
  /\ run[b].pc = "builder"
  /\ NumMut < MaxMut
  /\ \E t \in types : exts' = with_extension(builders[b], exts, t, b)
  /\ log' = [log EXCEPT ![b] = Append(@, E0("mutate"))]
  /\ UNCHANGED <<built, client, middleware_stack, initialiser_stack, builders, run,
                 lastClone>>

\* RequestBuilder::extensions: the caller is handed `&mut self.extensions`
\* and may do with the bag what a mutable reference allows: put a new empty
\* bag in its place, remove the value of one type, or exchange its contents
\* with the bag of another builder it holds (std::mem::swap).  Insertion
\* through the reference is with_extension.
extensions(builder, heap, op, t, other) ==
  CASE op = "replace" -> [heap EXCEPT ![builder.extensions] = Extensions_new]
    [] op = "remove"  -> [heap EXCEPT ![builder.extensions][t] = Absent]
    [] op = "swap"    -> [heap EXCEPT ![builder.extensions] = heap[other.extensions],
                                      ![other.extensions] = heap[builder.extensions]]

ExtensionsMut(b, ops, types) ==
  /\ run[b].pc = "builder"
  /\ NumMut < MaxMut
  /\ \E op \in ops :
       \/ /\ op = "replace"
          /\ exts' = extensions(builders[b], exts, op, "A", builders[b])
          /\ log' = [log EXCEPT ![b] = Append(@, Ev("mutate", 1, NoResult))]
       \/ /\ op = "remove"
          /\ \E t \in types :
               exts' = extensions(builders[b], exts, op, t, builders[b])
          /\ log' = [log EXCEPT ![b] = Append(@, Ev("mutate", 1, NoResult))]
       \/ /\ op = "swap"
          /\ \E c \in Bs \ {b} :
               /\ run[c].pc = "builder"
               /\ exts' = extensions(builders[b], exts, op, "A", builders[c])
               /\ log' = [log EXCEPT ![b] = Append(@, Ev("mutate", 1, NoResult)),
                                     ![c] = Append(@, Ev("mutate", 1, NoResult))]
  /\ UNCHANGED <<built, client, middleware_stack, initialiser_stack, builders, run,
                 lastClone>>

\* Mutant of `try_clone`: the clone is given a copy of the receiver's bag.
try_clone_keeps_extensions(builder, heap) ==
  IF reqwest_can_clone(builder.inner)
  THEN [ some    |-> TRUE,
         builder |-> [inner |-> builder.inner, extensions |-> Len(heap) + 1,
                      origin |-> "clone"],
         heap    |-> Append(heap, heap[builder.extensions]) ]
  ELSE [ some |-> FALSE, builder |-> builder, heap |-> heap ]

\* RequestBuilder::try_clone, as a function of the receiver and the
\* Extensions instances that exist: None when the wrapped builder cannot be
\* cloned, else a builder with the cloned inner builder, the same client and
\* a new, empty Extensions instance.
try_clone(builder, heap) ==
  IF reqwest_can_clone(builder.inner)
  THEN [ some    |-> TRUE,
         builder |-> [inner |-> builder.inner, extensions |-> Len(heap) + 1,
                      origin |-> "clone"],
         heap    |-> Append(heap, Extensions_new) ]
  ELSE [ some |-> FALSE, builder |-> builder, heap |-> heap ]

TryClone(b) ==
  /\ run[b].pc = "builder"
  /\ Len(builders) < MaxBuilders
  /\ LET c == try_clone(builders[b], exts)
     IN  IF c.some
         THEN /\ builders' = Append(builders, c.builder)
              /\ exts' = c.heap
              /\ run' = Append(run, NotSent)
              /\ log' = Append(log, <<Ev("clone", b, NoResult)>>)
              /\ lastClone' = [of |-> b, got |-> Len(builders) + 1]
         ELSE /\ lastClone' = [of |-> b, got |-> 0]
              /\ UNCHANGED <<builders, exts, run, log>>
  /\ UNCHANGED <<built, client, middleware_stack, initialiser_stack>>

\* ------------------------------------------------------ RequestBuilder::send
\* Mutant of `drop_extensions`: dropping one call chain clears every bag.
drop_all_extensions(heap, e) == [i \in DOMAIN heap |-> Extensions_new]

\* send() owns `extensions` (`mut extensions`, moved out of the builder): the
\* instance and its values are destroyed when send returns, on either path,
\* and when its future is dropped.
drop_extensions(heap, e) == [heap EXCEPT ![e] = Extensions_new]

\* Mutant of `build`: a failed builder still yields a request.
build_unchecked(inner) == Response

\* reqwest::RequestBuilder::build: Err for a builder in the failed state.
build(inner) == IF inner.failed THEN Err("Build", 0) ELSE Response

\* Mutant of `send`: the composed service is made but never called.
send_not_called(builder, stack, inner) ==
  IF IsErr(build(builder.inner))
  THEN [pc |-> "done", chain |-> <<>>, transport |-> NoClient, depth |-> 0,
        ret |-> build(builder.inner), ext |-> builder.extensions]
  ELSE [pc |-> "composed",
        chain |-> Chain(layer(stack, ReqwestService(Client_clone(inner)))),
        transport |-> TransportOf(layer(stack, ReqwestService(Client_clone(inner)))),
        depth |-> 0, ret |-> NoResult, ext |-> builder.extensions]

\* The synchronous head of send(): `inner.build()?` returns the Build error
\* at once; otherwise the middleware stack is layered over a ReqwestService
\* and the composed service is called with the builder's own Extensions.
send(builder, stack, inner) ==
  IF IsErr(build(builder.inner))
  THEN [pc |-> "done", chain |-> <<>>, transport |-> NoClient, depth |-> 0,
        ret |-> build(builder.inner), ext |-> builder.extensions]
  ELSE [pc |-> "calling",
        chain |-> Chain(layer(stack, ReqwestService(Client_clone(inner)))),
        transport |-> TransportOf(layer(stack, ReqwestService(Client_clone(inner)))),
        depth |-> 0, ret |-> NoResult, ext |-> builder.extensions]

\* Mutant of `Send`: the transport unit is given the client's handle itself
\* (`ReqwestService(client.inner)` without the clone), which leaves the
\* client without one.
Send_moves_inner(b) ==
  /\ run[b].pc = "builder"
  /\ LET r == send(builders[b], middleware_stack, client)
     IN  /\ run' = [run EXCEPT ![b] = r]
         /\ log' = [log EXCEPT ![b] =
              IF r.pc = "done"
              THEN @ \o <<Ev("build_err", 0, r.ret), Ev("done", 0, r.ret)>>
              ELSE @ \o <<E0("build"), E0("compose"), E0("invoke")>>]
         /\ exts' = IF r.pc = "done" THEN drop_extensions(exts, r.ext) ELSE exts
         /\ client' = IF r.pc = "done" THEN client ELSE NoClient
  /\ UNCHANGED <<built, middleware_stack, initialiser_stack, builders, lastClone>>

\* RequestBuilder::send, up to the call of the composed service; the client
\* is only borrowed (`client.middleware_stack.layer(..)`).
Send(b) ==
  /\ run[b].pc = "builder"
  /\ LET r == send(builders[b], middleware_stack, client)
     IN  /\ run' = [run EXCEPT ![b] = r]
         /\ log' = [log EXCEPT ![b] =
              IF r.pc = "done"
              THEN @ \o <<Ev("build_err", 0, r.ret), Ev("done", 0, r.ret)>>
              ELSE @ \o <<E0("build"), E0("compose"), E0("invoke")>>]
         /\ exts' = IF r.pc = "done" THEN drop_extensions(exts, r.ext) ELSE exts
  /\ UNCHANGED <<built, client, middleware_stack, initialiser_stack, builders,
                 lastClone>>

\* RequestBuilder::build (the public one): the builder is consumed, the
\* request is materialized (or the Build error returned), no stage runs and
\* the bag is destroyed with the builder.
BuildRequest(b) ==
  /\ run[b].pc = "builder"
  /\ run' = [run EXCEPT ![b].pc = "materialized",
                        ![b].ext = builders[b].extensions,
                        ![b].ret = IF IsErr(build(builders[b].inner))
                                   THEN build(builders[b].inner) ELSE NoResult]
  /\ log' = [log EXCEPT ![b] =
               Append(@, IF IsErr(build(builders[b].inner))
                         THEN Ev("build_err", 0, build(builders[b].inner))
                         ELSE E0("build"))]
  /\ exts' = drop_extensions(exts, builders[b].extensions)
  /\ UNCHANGED <<built, client, middleware_stack, initialiser_stack, builders,
                 lastClone>>

\* The builder, or the future send() returned for it, is dropped before the
\* future is first polled: nothing of send runs and the bag is destroyed.
DropUnpolled(b) ==
  /\ run[b].pc = "builder"
  /\ run' = [run EXCEPT ![b].pc = "dropped",
                        ![b].ext = builders[b].extensions]
  /\ log' = [log EXCEPT ![b] = Append(@, E0("drop"))]
  /\ exts' = drop_extensions(exts, builders[b].extensions)
  /\ UNCHANGED <<built, client, middleware_stack, initialiser_stack, builders,
                 lastClone>>

\* The stage the call chain of b is about to enter (0: the transport unit).
NextStage(b) == run[b].chain[run[b].depth + 1]

\* The stage that is waiting for the result of its inward call.
TopStage(b) == run[b].chain[run[b].depth]

\* A middleware stage is called, optionally inserts a value into the bag it
\* was handed, and delegates inward (next.call(req, ext)).
MwDelegate(b, writes) ==
  /\ run[b].pc = "calling"
  /\ NextStage(b) # 0
  /\ \E write \in writes :
       exts' = IF write
               THEN [exts EXCEPT ![run[b].ext] =
                       insert(@, "A", Val("mw", NextStage(b), b))]
               ELSE exts
  /\ run' = [run EXCEPT ![b].depth = @ + 1]
  /\ log' = [log EXCEPT ![b] = Append(@, Ev("enter", NextStage(b), NoResult))]
  /\ UNCHANGED <<built, client, middleware_stack, initialiser_stack, builders, lastClone>>

\* A middleware stage is called and returns an error without delegating.
MwShortCircuit(b) ==
  /\ run[b].pc = "calling"
  /\ NextStage(b) # 0
  /\ run' = [run EXCEPT ![b].pc = "returning",
                        ![b].ret = Err("Middleware", NextStage(b))]
  /\ log' = [log EXCEPT ![b] = @ \o
       <<Ev("enter", NextStage(b), NoResult),
         Ev("short", NextStage(b), Err("Middleware", NextStage(b)))>>]
  /\ UNCHANGED <<built, client, middleware_stack, initialiser_stack, builders, exts,
                 lastClone>>

\* Mutant of `ReqwestService_call`: the transport unit answers without
\* handing the request to the engine.
ReqwestService_call_skipped(r) == [r EXCEPT !.pc = "returning", !.ret = Response]

\* ReqwestService::call: self.0.execute(req); the bag is not touched.
ReqwestService_call(r) == [r EXCEPT !.pc = "engine"]

TransportCall(b) ==
  /\ run[b].pc = "calling"
  /\ NextStage(b) = 0
  /\ run' = [run EXCEPT ![b] = ReqwestService_call(@)]
  /\ log' = [log EXCEPT ![b] = Append(@, Ev("transport", run[b].depth, NoResult))]
  /\ UNCHANGED <<built, client, middleware_stack, initialiser_stack, builders, exts,
                 lastClone>>

\* Mutant of `map_err`: the engine's failure is dropped.
map_err_dropped(engineOk) == Response

\* fut.await.map_err(Error::from): the engine's outcome as this crate's
\* Result.
map_err(engineOk) == IF engineOk THEN Response ELSE Err("Transport", 0)

\* Mutant of `ReqwestService_await`: a failed execution is tried again.
ReqwestService_await_retrying(r, engineOk) ==
  IF engineOk THEN [r EXCEPT !.pc = "returning", !.ret = Response]
  ELSE [r EXCEPT !.pc = "engine"]

\* async { fut.await.map_err(Error::from) }: the transport unit returns the
\* outcome of the one execution it started.
ReqwestService_await(r, engineOk) ==
  [r EXCEPT !.pc = "returning", !.ret = map_err(engineOk)]

\* The transport engine completes the request, successfully or not.
EngineCompletes(b, outcomes) ==
  /\ run[b].pc = "engine"
  /\ \E engineOk \in outcomes :
       /\ run' = [run EXCEPT ![b] = ReqwestService_await(@, engineOk)]
       /\ log' = [log EXCEPT ![b] =
                    Append(@, Ev("engine", IF engineOk THEN 1 ELSE 0, NoResult))]
  /\ UNCHANGED <<built, client, middleware_stack, initialiser_stack, builders, exts,
                 lastClone>>

\* The inward call of the innermost active stage returns: the stage receives
\* the result and either passes it on or replaces it by an error of its own.
MwReturn(b, replaces) ==
  /\ run[b].pc = "returning"
  /\ run[b].depth > 0
  /\ \E replace \in replaces :
       run' = [run EXCEPT ![b].depth = @ - 1,
                          ![b].ret = IF replace
                                     THEN Err("Middleware", TopStage(b)) ELSE @]
  /\ log' = [log EXCEPT ![b] = Append(@, Ev("exit", TopStage(b), run[b].ret))]
  /\ UNCHANGED <<built, client, middleware_stack, initialiser_stack, builders, exts,
                 lastClone>>

\* The inward call of the innermost active stage returns and the stage calls
\* inward again, with the same request and the same bag (a retry).
MwRetry(b) ==
  /\ run[b].pc = "returning"
  /\ run[b].depth > 0
  /\ Cardinality({i \in 1..Len(log[b]) : log[b][i].ev = "retry"}) < MaxRetries
  /\ run' = [run EXCEPT ![b].pc = "calling", ![b].ret = NoResult]
  /\ log' = [log EXCEPT ![b] = Append(@, Ev("retry", TopStage(b), run[b].ret))]
  /\ UNCHANGED <<built, client, middleware_stack, initialiser_stack, builders, exts,
                 lastClone>>

\* The outermost call returns: send() returns its result, destroying the bag
\* it owns.
SendReturn(b) ==
  /\ run[b].pc = "returning"
  /\ run[b].depth = 0
  /\ run' = [run EXCEPT ![b].pc = "done"]
  /\ log' = [log EXCEPT ![b] = Append(@, Ev("done", 0, run[b].ret))]
  /\ exts' = drop_extensions(exts, run[b].ext)
  /\ UNCHANGED <<built, client, middleware_stack, initialiser_stack, builders,
                 lastClone>>

\* The caller drops the future of send() while it is suspended inside a
\* middleware stage or the transport unit: the call chain takes no further
\* step and its bag is released.
Abort(b) ==
  /\ run[b].pc \in {"calling", "engine", "returning"}
  /\ run' = [run EXCEPT ![b].pc = "cancelled"]
  /\ exts' = drop_extensions(exts, run[b].ext)
  /\ log' = [log EXCEPT ![b] = Append(@, E0("cancel"))]
  /\ UNCHANGED <<built, client, middleware_stack, initialiser_stack, builders,
                 lastClone>>

\* ----------------------------------------------------------- specification
\* One request through the whole pipeline, under every behaviour of the
\* environment: any initialiser effect, any URL, any caller mutation (the
\* bag changed through extensions() included), a builder that is sent,
\* materialized by build() or dropped, stages that write, delegate,
\* short-circuit or replace the result, an engine that succeeds or fails.
Next ==
  \/ With
  \/ WithInit(InitEffects)
  \/ Build
  \/ Request(1, BOOLEAN)
  \/ \E b \in Bs : Header(b, BOOLEAN)
  \/ \E b \in Bs : Body(b, {"buffered", "stream"})
  \/ \E b \in Bs : WithExtension(b, Types)
  \/ \E b \in Bs : Send(b)
  \/ \E b \in Bs : MwDelegate(b, BOOLEAN)
  \/ \E b \in Bs : MwShortCircuit(b)
  \/ \E b \in Bs : TransportCall(b)
  \/ \E b \in Bs : EngineCompletes(b, BOOLEAN)
  \/ \E b \in Bs : MwReturn(b, BOOLEAN)
  \/ \E b \in Bs : SendReturn(b)
  \/ \E b \in Bs : ExtensionsMut(b, {"replace", "remove"}, Types)
  \/ \E b \in Bs : BuildRequest(b)
  \/ \E b \in Bs : DropUnpolled(b)

Spec == Init /\ [][Next]_vars

\* Several RequestBuilders of one client, created by request() and by
\* try_clone() and mutated under every behaviour of the caller and of the
\* initialisers; no builder is sent.
NextClone ==
  \/ WithInit(InitEffects)
  \/ Build
  \/ Request(MaxBuilders, BOOLEAN)
  \/ \E b \in Bs : Header(b, BOOLEAN)
  \/ \E b \in Bs : Body(b, {"buffered", "stream"})
  \/ \E b \in Bs : WithExtension(b, Types)
  \/ \E b \in Bs : ExtensionsMut(b, {"replace", "remove", "swap"}, Types)
  \/ \E b \in Bs : TryClone(b)

SpecClone == Init /\ [][NextClone]_vars

\* Several RequestBuilders of one client, created by request() and by
\* try_clone() and sent concurrently: the steps of their call chains
\* interleave freely.  The environment is kept small: initialisers insert a
\* value of type A, the caller inserts a value of type B or exchanges the
\* bags of two builders, every stage writes
\* to the bag and delegates, results are passed on unchanged.
NextMany ==
  \/ With
  \/ WithInit({"extA"})
  \/ Build
  \/ Request(MaxBuilders, {TRUE})
  \/ \E b \in Bs : WithExtension(b, {"B"})
  \/ \E b \in Bs : ExtensionsMut(b, {"swap"}, {})
  \/ \E b \in Bs : TryClone(b)
  \/ \E b \in Bs : Send(b)
  \/ \E b \in Bs : MwDelegate(b, {TRUE})
  \/ \E b \in Bs : TransportCall(b)
  \/ \E b \in Bs : EngineCompletes(b, {TRUE})
  \/ \E b \in Bs : MwReturn(b, {FALSE})
  \/ \E b \in Bs : SendReturn(b)

SpecMany == Init /\ [][NextMany]_vars

\* Several requests of one client in flight together, untouched between
\* request() and send(), any of which the caller may abort while it is
\* suspended.
NextCancel ==
  \/ With
  \/ WithInit({"extB"})
  \/ Build
  \/ Request(MaxBuilders, BOOLEAN)
  \/ \E b \in Bs : TryClone(b)
  \/ \E b \in Bs : Send(b)
  \/ \E b \in Bs : MwDelegate(b, {TRUE})
  \/ \E b \in Bs : TransportCall(b)
  \/ \E b \in Bs : EngineCompletes(b, BOOLEAN)
  \/ \E b \in Bs : MwReturn(b, {FALSE})
  \/ \E b \in Bs : SendReturn(b)
  \/ \E b \in Bs : Abort(b)

SpecCancel == Init /\ [][NextCancel]_vars

\* Everything a caller can do with a built client, on two requests (a first
\* and a later one, created by request() or by try_clone()): the builders are
\* mutated (setters, with_extension, extensions()), cloned, materialized,
\* dropped and sent; a send ends in a Response, in a Build, Middleware or
\* Transport error, or is aborted.
NextClient ==
  \/ With
  \/ WithInit({"extA"})
  \/ Build
  \/ Request(2, {TRUE})
  \/ \E b \in Bs : Header(b, BOOLEAN)
  \/ \E b \in Bs : Body(b, {"buffered", "stream"})
  \/ \E b \in Bs : WithExtension(b, {"B"})
  \/ \E b \in Bs : ExtensionsMut(b, {"replace", "swap"}, {})
  \/ \E b \in Bs : Len(builders) < 2 /\ TryClone(b)
  \/ \E b \in Bs : BuildRequest(b)
  \/ \E b \in Bs : DropUnpolled(b)
  \/ \E b \in Bs : Send(b)
  \/ \E b \in Bs : MwDelegate(b, {FALSE})
  \/ \E b \in Bs : MwShortCircuit(b)
  \/ \E b \in Bs : TransportCall(b)
  \/ \E b \in Bs : EngineCompletes(b, BOOLEAN)
  \/ \E b \in Bs : MwReturn(b, {FALSE})
  \/ \E b \in Bs : SendReturn(b)
  \/ \E b \in Bs : Abort(b)

SpecClient == Init /\ [][NextClient]_vars

\* One request through stages that may call inward again: stages that write,
\* delegate, short-circuit or retry, an engine that succeeds or fails.
NextRetry ==
  \/ With
  \/ WithInit({"extA"})
  \/ Build
  \/ Request(1, BOOLEAN)
  \/ \E b \in Bs : Send(b)
  \/ \E b \in Bs : MwDelegate(b, BOOLEAN)
  \/ \E b \in Bs : MwShortCircuit(b)
  \/ \E b \in Bs : TransportCall(b)
  \/ \E b \in Bs : EngineCompletes(b, BOOLEAN)
  \/ \E b \in Bs : MwReturn(b, {FALSE})
  \/ \E b \in Bs : MwRetry(b)
  \/ \E b \in Bs : SendReturn(b)

SpecRetry == Init /\ [][NextRetry]_vars

\* A step of b's call chain: a stage runs up to its inward call or its
\* return, the transport unit starts the engine, the engine completes, a
\* result is handed outward.
Progress(b) ==
  /\ b \in Bs
  /\ \/ MwDelegate(b, BOOLEAN)
     \/ MwShortCircuit(b)
     \/ TransportCall(b)
     \/ EngineCompletes(b, BOOLEAN)
     \/ MwReturn(b, {FALSE})
     \/ MwRetry(b)
     \/ SendReturn(b)

\* SpecRetry with a caller that keeps polling the future of send(), stages
\* and an engine that eventually return, and (MaxRetries) stages that call
\* inward only finitely often.
SpecLive ==
  /\ Init
  /\ [][NextRetry]_vars
  /\ \A b \in 1..MaxBuilders : WF_vars(Progress(b))

\* ------------------------------------------------------------ properties
\* Events of b's call chain, in order.
PipeEvents(b) ==
  SelectSeq(log[b], LAMBDA e : e.ev \in {"enter", "short", "transport", "exit"})

\* Positions of log[b] holding an event named ev.
At(b, ev) == {i \in 1..Len(log[b]) : log[b][i].ev = ev}

\* send() was called for b and has run (its future was polled).
Sent(b) == run[b].pc \in {"calling", "engine", "returning", "done", "cancelled"}

\* b's call chain is in flight: its bag exists and is in the hands of send.
InFlight(b) == run[b].pc \in {"calling", "engine", "returning"}

\* The caller has used the reference extensions() returns on b's bag (to put
\* another bag in its place, remove a value, or exchange it with another
\* builder's).
Accessed(b) == \E i \in At(b, "mutate") : log[b][i].id = 1

\* Every stage of b's call chain that was called delegated inward, once.
AllDelegateOnce(b) == At(b, "short") = {} /\ At(b, "retry") = {}

\* The call chain of N well-behaved stages: enter 1..N, the transport call
\* at nesting depth N, exit N..1.
Expected(N) ==
  [i \in 1..(2 * N + 1) |->
     IF i <= N THEN <<"enter", i>>
     ELSE IF i = N + 1 THEN <<"transport", N>>
     ELSE <<"exit", 2 * N + 2 - i>>]

\* The end of the attempt that position `from` of log[b] belongs to: the
\* next retry, or the end of the log.
AttemptEnd(b, from) ==
  LET R == {i \in At(b, "retry") : i > from}
  IN  IF R = {} THEN Len(log[b]) ELSE CHOOSE i \in R : \A j \in R : i <= j

\* The start of the attempt that position `pos` of log[b] belongs to: the
\* last retry before it, or the start of the log.
AttemptStart(b, pos) ==
  LET R == {i \in At(b, "retry") : i < pos}
  IN  IF R = {} THEN 1 ELSE CHOOSE i \in R : \A j \in R : j <= i

\* The result travelling outward: each stage (and finally send) receives
\* what the stage below it returned, which is what that stage received or
\* that stage's own replacement error, until a stage calls inward again.
\* `from` is the position of the event that produced the first result, r0
\* that result.
FlowsOutward(b, from, r0) ==
  \A i \in (from + 1)..AttemptEnd(b, from) :
    LET e == log[b][i]
        p == log[b][i - 1]
    IN  /\ e.ev \in {"exit", "retry", "done"}
        /\ IF i - 1 = from THEN e.res = r0
           ELSE /\ p.ev = "exit"
                /\ e.res \in {p.res, Err("Middleware", p.id)}
                /\ e.ev \in {"exit", "retry"} => e.id = p.id - 1

\* C1: with N registered layers that each delegate inward exactly once, a
\* send enters L1, ..., LN in registration order, then calls the transport
\* unit at nesting depth N, then exits LN, ..., L1; when send returns the
\* nesting depth is 0 and every stage has been left.
C1_OnionOrder ==
  \A b \in Bs :
    AllDelegateOnce(b) =>
      LET N == Size(middleware_stack)
          P == PipeEvents(b)
      IN  /\ Len(P) <= 2 * N + 1
          /\ \A i \in 1..Len(P) : <<P[i].ev, P[i].id>> = Expected(N)[i]
          /\ run[b].pc = "engine" => run[b].depth = N
          /\ (run[b].pc = "done" /\ run[b].ret.kind # "Build") =>
               (Len(P) = 2 * N + 1 /\ run[b].depth = 0)

C1_Witness ==
  \E b \in Bs :
    /\ run[b].pc = "done"
    /\ AllDelegateOnce(b)
    /\ Size(middleware_stack) >= 2
    /\ Len(PipeEvents(b)) = 2 * Size(middleware_stack) + 1

\* C2: when the builder that is sent is in the failed state (a caller
\* mutation, the URL or an initialiser made it so), send returns a Build
\* error at once: no middleware stage is entered and the transport unit is
\* not called.
C2_BuildFailsFast ==
  \A b \in Bs :
    (Sent(b) /\ builders[b].inner.failed) =>
      /\ run[b].pc = "done"
      /\ run[b].ret = Err("Build", 0)
      /\ PipeEvents(b) = <<>>
      /\ At(b, "engine") = {}

C2_Witness ==
  \E b \in Bs :
    /\ run[b].pc = "done"
    /\ builders[b].inner.failed
    /\ run[b].ret.kind = "Build"
    /\ Size(middleware_stack) >= 1
    /\ At(b, "init") # {}

\* C3: when stage Lk returns an error without delegating inward, no stage
\* L(k+1)..LN is entered and the transport unit is not called (in the attempt
\* Lk was called in, when a stage outside Lk retries); the stages
\* L(k-1), ..., L1 are left in that order, each receiving as the result of
\* its inward call what the stage below returned (the error of Lk, unless a
\* stage in between replaced it), and send returns what L1 returned.
C3_ShortCircuit ==
  \A b \in Bs : \A s \in At(b, "short") :
    LET k == log[b][s].id
        first == AttemptStart(b, s)
        last == AttemptEnd(b, s)
        after == {i \in At(b, "exit") : i > s}
    IN  /\ log[b][s].res = Err("Middleware", k)
        /\ \A i \in first..last :
             /\ log[b][i].ev \notin {"transport", "engine"}
             /\ log[b][i].ev = "enter" => log[b][i].id <= k
        /\ FlowsOutward(b, s, Err("Middleware", k))
        /\ run[b].pc = "done" /\ last = Len(log[b]) =>
             /\ {log[b][i].id : i \in after} = 1..(k - 1)
             /\ (\A i \in after : log[b][i].res = Err("Middleware", k))
                  => run[b].ret \in {Err("Middleware", k), Err("Middleware", 1)}
             /\ run[b].ret.kind = "Middleware" /\ run[b].ret.by <= k

C3_Witness ==
  \E b \in Bs : \E s \in At(b, "short") :
    /\ log[b][s].id = 2
    /\ run[b].pc = "done"
    /\ run[b].ret = Err("Middleware", 2)
    /\ \E i \in At(b, "exit") :
         log[b][i].id = 1 /\ log[b][i].res = Err("Middleware", 2)

\* C10: when the transport engine fails, the transport unit returns a
\* Transport error; it is delivered as the result of the inward call to the
\* active stages in the order LN, ..., L1 (each receiving what the stage
\* below returned, up to a stage that calls inward again), and unless a stage
\* replaces it send returns it.
C10_TransportError ==
  \A b \in Bs : \A g \in At(b, "engine") :
    log[b][g].id = 0 =>
      LET after == {i \in At(b, "exit") : i > g}
      IN  /\ FlowsOutward(b, g, Err("Transport", 0))
          /\ run[b].pc = "returning" /\ g = Len(log[b])
               => run[b].ret = Err("Transport", 0)
          /\ run[b].pc = "done" /\ AttemptEnd(b, g) = Len(log[b]) =>
               /\ [i \in 1..(Len(log[b]) - g - 1) |-> log[b][g + i].id] =
                    [i \in 1..Size(middleware_stack) |->
                       Size(middleware_stack) + 1 - i]
               /\ run[b].ret.kind \in {"Transport", "Middleware"}
               /\ (\A i \in after : log[b][i].res = Err("Transport", 0))
                    => run[b].ret \in {Err("Transport", 0),
                                       Err("Middleware", 1)}

C10_Witness ==
  \E b \in Bs : \E g \in At(b, "engine") :
    /\ log[b][g].id = 0
    /\ run[b].pc = "done"
    /\ run[b].ret = Err("Transport", 0)
    /\ Size(middleware_stack) >= 2
    /\ \A i \in At(b, "exit") : log[b][i].res = Err("Transport", 0)

\* The bag the initialiser chain produces for builder b.
InitBag(b) ==
  init(initialiser_stack, [req |-> reqwest_request(TRUE),
                           ext |-> Extensions_new, ran |-> <<>>], b).ext

\* The bag of builder b: the one it owns, and once it is sent the one its
\* call chain was handed.
BagOf(b) ==
  exts[IF run[b].pc = "builder" THEN builders[b].extensions ELSE run[b].ext]

\* b's call chain has been invoked (its request was materialized).
Invoked(b) == At(b, "invoke") # {}

\* C4 as stated: every value an initialiser inserted is in its slot at
\* every step of the call chain, unless a stage of the same request
\* overwrote it.
C4_Original ==
  \A b \in Bs :
    builders[b].origin = "request" /\ InFlight(b) =>
      \A t \in Types :
        InitBag(b)[t] # Absent =>
          \/ BagOf(b)[t] = InitBag(b)[t]
          \/ BagOf(b)[t].by = "mw" /\ BagOf(b)[t].owner = b

\* C4 (as amended): for a builder created by request(), the bag handed to
\* the call chain is the instance the initialiser chain wrote to: before
\* the send and at every step of the chain each value an initialiser
\* inserted is still in its slot, unless the caller replaced it
\* (with_extension of the same type), changed the bag through extensions(),
\* or a middleware stage of the same request overwrote that slot.
C4_InitValuesVisible ==
  \A b \in Bs :
    builders[b].origin = "request" =>
      /\ Invoked(b) => run[b].ext = builders[b].extensions
      /\ run[b].pc = "builder" \/ InFlight(b) =>
           \A t \in Types :
             InitBag(b)[t] # Absent =>
               \/ BagOf(b)[t] = InitBag(b)[t]
               \/ BagOf(b)[t].by \in {"caller", "mw"} /\ BagOf(b)[t].owner = b
               \/ Accessed(b)

C4_Witness ==
  \E b \in Bs :
    /\ builders[b].origin = "request"
    /\ run[b].pc = "calling"
    /\ run[b].depth = 2
    /\ \E t \in Types :
         InitBag(b)[t] # Absent /\ BagOf(b)[t] = InitBag(b)[t]

\* C5 as stated: a bag holds only values inserted on behalf of its own
\* request (by its initialisers, its with_extension calls, its stages).
C5_Original ==
  \A b \in Bs :
    \A t \in Types : exts[builders[b].extensions][t].owner \in {0, b}

\* C5 (as amended): builders of one client never share an Extensions
\* instance, a call chain is handed its own builder's instance, and under
\* every interleaving a bag holds only values inserted on behalf of its own
\* request (by its initialisers, its with_extension calls, its middleware
\* stages), unless the caller itself exchanged the bags of two builders
\* through extensions() before sending them.
C5_BagIsolation ==
  /\ \A b1, b2 \in Bs :
       b1 # b2 => builders[b1].extensions # builders[b2].extensions
  /\ \A b \in Bs :
       /\ run[b].pc # "builder" => run[b].ext = builders[b].extensions
       /\ builders[b].extensions \in 1..Len(exts)
       /\ \A t \in Types :
            \/ exts[builders[b].extensions][t].owner \in {0, b}
            \/ Accessed(b)

C5_Witness ==
  \E b1, b2 \in Bs :
    /\ b1 # b2
    /\ \A b \in {b1, b2} :
         /\ builders[b].origin = "request"
         /\ run[b].pc \in {"calling", "engine", "returning"}
         /\ run[b].depth >= 1
         /\ BagOf(b)["A"] = Val("mw", 1, b)
    /\ BagOf(b1)["B"] = Val("caller", 0, b1)
    /\ BagOf(b2)["B"] = Absent

\* C6 (as amended): try_clone returns nothing when the body is a stream or
\* the builder is in the failed state, and then changes nothing; otherwise
\* it returns a new builder with the same request state whose bag is a new,
\* empty Extensions instance, whatever the receiver's bag holds, and every
\* existing builder and bag is left unchanged.
C6_TryClone ==
  [][ \A b \in Bs :
        TryClone(b) =>
          LET g == lastClone'.got
          IN  /\ lastClone'.of = b
              /\ (g = 0) <=> (builders[b].inner.body = "stream"
                              \/ builders[b].inner.failed)
              /\ g = 0 => UNCHANGED <<builders, exts, run, log>>
              /\ g # 0 =>
                   /\ g = Len(builders) + 1
                   /\ Len(builders') = g
                   /\ builders'[g].inner = builders[b].inner
                   /\ run'[g].pc = "builder"
                   /\ builders'[g].extensions \in 1..Len(exts')
                   /\ builders'[g].extensions \notin
                        {builders[x].extensions : x \in Bs}
                   /\ exts'[builders'[g].extensions] = Extensions_new
                   /\ \A x \in Bs :
                        /\ builders'[x] = builders[x]
                        /\ exts'[builders[x].extensions] =
                             exts[builders[x].extensions]
    ]_vars

C6_Witness ==
  /\ lastClone.got # 0
  /\ builders[lastClone.got].origin = "clone"
  /\ builders[lastClone.of].inner.body = "buffered"
  /\ exts[builders[lastClone.of].extensions]["A"].by = "init"
  /\ exts[builders[lastClone.got].extensions] = Extensions_new

\* C6 as stated: try_clone returns nothing exactly when the body is a
\* stream.
C6_Original ==
  [][ \A b \in Bs :
        TryClone(b) =>
          ((lastClone'.got = 0) <=> (builders[b].inner.body = "stream"))
    ]_vars

\* The stage of the request's life an event belongs to, with the
\* initialiser chain before the caller's mutations.
PhaseRank(e) ==
  CASE e.ev \in {"new", "clone"}        -> 0
    [] e.ev = "init"                    -> 1
    [] e.ev = "mutate"                  -> 2
    [] e.ev \in {"build", "build_err"}  -> 3
    [] e.ev = "compose"                 -> 4
    [] e.ev = "done"                    -> 6
    [] OTHER                            -> 5

\* The same, in the order the claim states: the caller's mutations before
\* the initialiser chain.
PhaseRankStated(e) ==
  CASE e.ev = "init"   -> 2
    [] e.ev = "mutate" -> 1
    [] OTHER           -> PhaseRank(e)

\* C7 (as amended): a request created by request() passes through its
\* stages in this order, never stepping back: the initialiser chain is
\* applied (when the builder is created), then the caller's mutations are
\* collected, then the request is materialized, then the middleware stack
\* is composed over the transport unit, then the call chain is invoked,
\* then the terminal Response or Error is produced; a failed
\* materialization goes to the terminal Build error at once.
C7_StageOrder ==
  \A b \in Bs :
    builders[b].origin = "request" =>
      /\ \A i, j \in 1..Len(log[b]) :
           i < j => PhaseRank(log[b][i]) <= PhaseRank(log[b][j])
      /\ Cardinality(At(b, "init")) = Size(initialiser_stack)
      /\ Cardinality(At(b, "build") \cup At(b, "build_err")) =
           (IF Sent(b) \/ run[b].pc = "materialized" THEN 1 ELSE 0)
      /\ Invoked(b) =>
           /\ Cardinality(At(b, "compose")) = 1
           /\ Cardinality(At(b, "invoke")) = 1
           /\ At(b, "build_err") = {}
      /\ run[b].pc = "done" <=> At(b, "done") # {}
      /\ run[b].pc = "done" =>
           /\ log[b][Len(log[b])] = Ev("done", 0, run[b].ret)
           /\ run[b].ret.kind \in {"Response", "Build", "Middleware", "Transport"}

C7_Witness ==
  \E b \in Bs :
    /\ builders[b].origin = "request"
    /\ run[b].pc = "done"
    /\ run[b].ret = Response
    /\ At(b, "init") # {}
    /\ At(b, "mutate") # {}
    /\ At(b, "enter") # {}

\* C7 as stated: the initialiser chain is applied after the caller's
\* builder mutations.
C7_Original ==
  \A b \in Bs :
    builders[b].origin = "request" =>
      \A i, j \in 1..Len(log[b]) :
        i < j => PhaseRankStated(log[b][i]) <= PhaseRankStated(log[b][j])

\* How often initialiser k was invoked for builder b.
InitCount(b, k) ==
  Cardinality({i \in At(b, "init") : log[b][i].id = k})

\* C8 (as amended): for a builder created by request() every registered
\* initialiser was invoked exactly once, and before the request was
\* materialized or any middleware stage entered; for a builder obtained
\* through try_clone the initialiser chain was not invoked at all, and its
\* bag holds no value of an initialiser (unless the caller moved one into
\* it through extensions()).
C8_InitOncePerRequest ==
  \A b \in Bs :
    /\ builders[b].origin = "request" =>
         /\ \A k \in 1..Size(initialiser_stack) : InitCount(b, k) = 1
         /\ \A i \in At(b, "init") : \A j \in 1..Len(log[b]) :
              log[b][j].ev \in {"build", "build_err", "compose", "invoke",
                                "enter", "transport"} => i < j
    /\ builders[b].origin = "clone" =>
         /\ At(b, "init") = {}
         /\ \A t \in Types : BagOf(b)[t].by # "init" \/ Accessed(b)

C8_Witness ==
  \E b, c \in Bs :
    /\ builders[b].origin = "request"
    /\ builders[c].origin = "clone"
    /\ Size(initialiser_stack) >= 2
    /\ run[b].pc = "returning"
    /\ run[c].pc = "done"
    /\ At(c, "enter") # {}
    /\ BagOf(b)["A"].by = "mw"

\* C8 as stated: for every request that is sent, also from a builder
\* obtained through try_clone, every registered initialiser was invoked
\* exactly once for it.
C8_Original ==
  \A b \in Bs :
    Sent(b) =>
      \A k \in 1..Size(initialiser_stack) : InitCount(b, k) = 1

\* The initialisers invoked for builder b, in the order they ran.
InitOrder(b) ==
  LET I == SelectSeq(log[b], LAMBDA e : e.ev = "init")
  IN  [i \in 1..Len(I) |-> I[i].id]

\* The user elements held by a (Request)Stack.
RECURSIVE Leaves(_)
Leaves(s) ==
  CASE s.kind = "Identity" -> {}
    [] s.kind = "Stack"    -> Leaves(s.inner) \cup Leaves(s.outer)
    [] OTHER               -> {s}

\* Registration indices of the initialisers that insert a value of type t.
Inserters(t) ==
  {l.id : l \in {x \in Leaves(initialiser_stack) :
                   x.eff = (IF t = "A" THEN "extA" ELSE "extB")}}

\* C9 as stated: creating a request applies the initialisers in
\* registration order, I1 first and IN last, so that of the initialisers
\* inserting a value of one type the last registered one wins.
C9_RegistrationOrder ==
  \A b \in Bs :
    builders[b].origin = "request" =>
      /\ InitOrder(b) = [i \in 1..Size(initialiser_stack) |-> i]
      /\ \A t \in Types :
           Inserters(t) # {} =>
             \A k \in Inserters(t) : k <= InitBag(b)[t].id

\* ------------------------------------------------------------ bare client
\* The events of log[b] made by the transport unit, the engine and the
\* return of send.
TransportEvents(b) ==
  LET T == SelectSeq(log[b], LAMBDA e : e.ev \in {"transport", "engine", "done"})
  IN  [i \in 1..Len(T) |-> T[i].ev]

\* C11: a client built with no middleware and no initialiser behaves as the
\* transport unit called directly: no initialiser and no stage runs, a
\* materialized request is handed to the transport unit exactly once and to
\* the engine exactly once, send returns exactly the transport unit's result
\* (a Response, or the Transport error made from the engine's failure), and
\* the bag holds only what the caller put into it.
C11_BareClient ==
  \A b \in Bs :
    Size(middleware_stack) = 0 /\ Size(initialiser_stack) = 0 =>
      /\ At(b, "init") = {}
      /\ PipeEvents(b) \in {<<>>, <<Ev("transport", 0, NoResult)>>}
      /\ \A t \in Types : BagOf(b)[t] \in {Absent, Val("caller", 0, b)}
      /\ Invoked(b) =>
           /\ ~builders[b].inner.failed
           /\ run[b].chain = <<0>>
           /\ \E n \in 0..3 :
                TransportEvents(b) = SubSeq(<<"transport", "engine", "done">>, 1, n)
           /\ run[b].pc = "done" =>
                /\ TransportEvents(b) = <<"transport", "engine", "done">>
                /\ \A g \in At(b, "engine") :
                     run[b].ret = IF log[b][g].id = 1 THEN Response
                                  ELSE Err("Transport", 0)

C11_Witness ==
  \E b \in Bs :
    /\ Size(middleware_stack) = 0 /\ Size(initialiser_stack) = 0
    /\ run[b].pc = "returning"
    /\ run[b].ret = Err("Transport", 0)
    /\ BagOf(b)["B"] = Val("caller", 0, b)
    /\ TransportEvents(b) = <<"transport", "engine">>

\* ----------------------------------------------------------- cancellation
\* The completed call chains are those of requests nobody disturbed: every
\* stage entered and left in stack order, the result the engine's outcome
\* mapped by the transport unit, and while the result travels outward the
\* bag still holding the stages' value.
UndisturbedOutcomes ==
  \A c \in Bs :
    /\ run[c].pc = "done" /\ Invoked(c) =>
         /\ [i \in 1..Len(PipeEvents(c)) |->
               <<PipeEvents(c)[i].ev, PipeEvents(c)[i].id>>]
              = Expected(Size(middleware_stack))
         /\ \E g \in At(c, "engine") :
              run[c].ret = IF log[c][g].id = 1 THEN Response
                           ELSE Err("Transport", 0)
    /\ run[c].pc \in {"engine", "returning"} /\ Size(middleware_stack) > 0 =>
         BagOf(c)["A"] = Val("mw", Size(middleware_stack), c)

\* C12: aborting the call chain of request b at a suspension point releases
\* b's bag and changes nothing of any other request (its position in its
\* call chain, its history, its builder, its bag) nor the client; the
\* aborted chain takes no further step; and every other request still
\* completes with the stage order and outcome of an undisturbed request.
C12_AbortIsolated ==
  [][ /\ \A b \in Bs :
           /\ run[b].pc # "cancelled" /\ run'[b].pc = "cancelled" =>
                /\ run[b].pc \in {"calling", "engine", "returning"}
                /\ exts'[run[b].ext] = Extensions_new
                /\ \A c \in Bs \ {b} :
                     /\ run'[c] = run[c]
                     /\ log'[c] = log[c]
                     /\ builders'[c] = builders[c]
                     /\ exts'[builders[c].extensions] = exts[builders[c].extensions]
                /\ UNCHANGED <<built, client, middleware_stack, initialiser_stack>>
           /\ run[b].pc = "cancelled" =>
                /\ run'[b] = run[b]
                /\ log'[b] = log[b]
                /\ exts'[run[b].ext] = exts[run[b].ext]
      /\ UndisturbedOutcomes'
    ]_vars

C12_Witness ==
  \E b \in Bs : \E c \in Bs :
    /\ run[b].pc = "cancelled"
    /\ log[b][Len(log[b]) - 1].ev = "enter"
    /\ BagOf(b) = Extensions_new
    /\ run[c].pc = "returning"
    /\ run[c].depth = 0
    /\ run[c].ret = Response
    /\ BagOf(c)["A"] = Val("mw", 2, c)

\* ------------------------------------------------------- the built client
\* Every request sent so far was given the call chain of the client's stack,
\* L1, ..., LN and the transport unit, and every builder made by request()
\* was passed through each of the client's initialisers once.
SameStagesForAll ==
  \A b \in Bs :
    /\ Invoked(b) =>
         /\ run[b].chain =
           Chain(layer(middleware_stack, ReqwestService(Client_clone(client))))
         /\ run[b].transport = client
         /\ run[b].chain =
              [i \in 1..(Size(middleware_stack) + 1) |->
                 IF i <= Size(middleware_stack) THEN i ELSE 0]
    /\ builders[b].origin = "request" =>
         {log[b][i].id : i \in At(b, "init")} = 1..Size(initialiser_stack)

\* C13: once the client is built no step (request, a builder mutation through
\* a setter, with_extension or extensions(), try_clone, build, send, a step of
\* a call chain, an abort, a drop) changes its middleware stack, its
\* initialiser stack or its transport handle or un-builds it, and every
\* request, however the earlier ones ended, is given the same stages in the
\* same order, ending in a transport unit that holds the client's handle.
C13_ClientFrozen ==
  /\ [][built => UNCHANGED <<built, client, middleware_stack, initialiser_stack>>]_vars
  /\ []SameStagesForAll

\* A request whose builder the caller mutated has ended in an error, and a
\* second request has just been given its call chain: the same stages, and
\* the client's handle.
C13_Witness ==
  \E b \in Bs : \E d \in Bs \ {b} :
    /\ Size(middleware_stack) = 2 /\ Size(initialiser_stack) = 1
    /\ At(b, "mutate") # {}
    /\ run[b].pc = "done" /\ run[b].ret = Err("Middleware", 2)
    /\ run[d].pc = "calling" /\ run[d].depth = 0
    /\ log[d][Len(log[d])].ev = "invoke"
    /\ run[b].chain = <<1, 2, 0>> /\ run[d].chain = run[b].chain
    /\ run[b].transport = client /\ run[d].transport = client

\* ------------------------------------------------------ the transport unit
\* Number of elements of a set of log positions.
Count(S) == Cardinality(S)

\* How often the innermost stage of b's call chain has called inward: for a
\* chain of N >= 1 stages the calls and repeated calls of LN that delegated,
\* for a bare chain the one call made by send.
InnermostDelegations(b) ==
  LET N == Len(run[b].chain) - 1
  IN  IF N = 0 THEN 1
      ELSE Count({i \in At(b, "enter") :
                    /\ log[b][i].id = N
                    /\ ~(i < Len(log[b]) /\ log[b][i + 1].ev = "short")}
                 \cup {i \in At(b, "retry") : log[b][i].id = N})

\* Each call of the transport unit is followed by exactly one execution of
\* the engine, whatever its outcome, and the engine executes only for a call
\* of the transport unit.
OneExecutionPerCall ==
  \A b \in Bs :
    Invoked(b) =>
      /\ \A i \in At(b, "transport") :
           IF i = Len(log[b]) THEN run[b].pc = "engine"
           ELSE log[b][i + 1].ev = "engine"
      /\ \A g \in At(b, "engine") :
           /\ log[b][g - 1].ev = "transport"
           /\ g < Len(log[b]) => log[b][g + 1].ev \in {"exit", "retry", "done"}
      /\ Count(At(b, "transport")) =
           InnermostDelegations(b)
             - (IF run[b].pc = "calling" /\ NextStage(b) = 0 THEN 1 ELSE 0)
      /\ Count(At(b, "engine")) =
           Count(At(b, "transport")) - (IF run[b].pc = "engine" THEN 1 ELSE 0)
      /\ run[b].pc = "done" =>
           Count(At(b, "engine")) = InnermostDelegations(b)

\* C14: each call of the transport unit hands the request to the engine
\* exactly once, with no retry when the engine fails, and leaves the bag as
\* it is; so the engine executions of one send are as many as the inward
\* calls of the innermost stage.
C14_TransportOnce ==
  /\ []OneExecutionPerCall
  /\ [][\A b \in Bs :
          /\ run[b].pc = "calling" /\ NextStage(b) = 0 /\ run'[b] # run[b]
               => /\ exts' = exts
                  /\ run'[b] = [run[b] EXCEPT !.pc = "engine"]
          /\ run[b].pc = "engine" /\ run'[b] # run[b]
               => /\ exts' = exts
                  /\ run'[b].pc = "returning"
                  /\ run'[b].ret \in {Response, Err("Transport", 0)}
       ]_vars

C14_Witness ==
  \E b \in Bs :
    /\ run[b].pc = "returning"
    /\ run[b].depth = 0
    /\ Len(run[b].chain) = 3
    /\ Count(At(b, "engine")) = 2
    /\ \E g \in At(b, "engine") : log[b][g].id = 0
    /\ \E i \in At(b, "retry") : log[b][i].id = 2
    /\ BagOf(b)["A"] # Absent

\* ------------------------------------------------------------ termination
\* send has returned for b, with a Response or one of the three errors.
Terminal(b) ==
  /\ run[b].pc = "done"
  /\ run[b].ret \in {Response, Err("Build", 0), Err("Transport", 0)}
                      \cup {Err("Middleware", k) : k \in 1..MaxLayers}

\* C15: with stages and an engine that eventually return and stages that
\* call inward finitely often, every send that was started returns, with a
\* Response or a Build, Middleware or Transport error; a send never stops in
\* any other state, returns once, and its outcome does not change afterwards.
C15_SendTerminates ==
  /\ \A b \in 1..MaxBuilders :
       (b \in Bs /\ run[b].pc # "builder") ~> (b \in Bs /\ Terminal(b))
  /\ [](\A b \in Bs :
          /\ run[b].pc \in {"builder", "calling", "engine", "returning", "done"}
          /\ Count(At(b, "done")) = (IF run[b].pc = "done" THEN 1 ELSE 0)
          /\ run[b].pc = "done" =>
               /\ Terminal(b)
               /\ log[b][Len(log[b])] = Ev("done", 0, run[b].ret))
  /\ [][\A b \in Bs :
          run[b].pc = "done" => run'[b] = run[b] /\ log'[b] = log[b]]_vars

C15_Witness ==
  \E b \in Bs :
    /\ Terminal(b)
    /\ run[b].ret = Response
    /\ \E g \in At(b, "engine") : log[b][g].id = 0
    /\ At(b, "retry") # {}

\* ------------------------------------------------------ the caller's value
\* C16: with_extension of a value of type t puts the caller's value into
\* slot t of the builder's bag, replacing what an initialiser (or an earlier
\* call) put there, and leaves the slots of other types as they are; from
\* then on slot t holds the caller's value, in the bag the middleware stages
\* are handed, until the caller changes the bag again through extensions(),
\* a stage of that request overwrites it, or the bag is destroyed with the
\* builder or at the return of send.
C16_CallerValueWins ==
  [][\A b \in Bs :
       LET e == builders[b].extensions
       IN  /\ \A t \in Types :
                /\ WithExtension(b, {t}) =>
                     exts'[e] = [exts[e] EXCEPT ![t] = Val("caller", 0, b)]
                /\ exts[e][t].by = "caller" /\ exts'[e][t] # exts[e][t] =>
                     \/ run[b].pc = "calling" /\ exts'[e][t].by = "mw"
                     \/ run[b].pc = "builder" /\ ExtensionsMut(b, {"replace", "remove"}, Types)
                     \/ run'[b].pc \in {"done", "materialized", "dropped"}
           /\ run'[b].pc # "builder" => run'[b].ext = e
    ]_vars

C16_Witness ==
  \E b \in Bs :
    /\ InitBag(b)["A"] = Val("init", 1, b)
    /\ InitBag(b)["B"] = Val("init", 2, b)
    /\ BagOf(b)["B"] = Val("caller", 0, b)
    /\ BagOf(b)["A"] = Val("init", 1, b)
    /\ \E i \in At(b, "enter") : log[b][i].id = 2

\* ------------------------------------------------------------------ retry
\* Positions of log[b] at which stage j called inward: its first call (when
\* it did not return at once) and its repeated calls.
Delegations(b, j) ==
  {i \in At(b, "enter") :
     /\ log[b][i].id = j
     /\ ~(i < Len(log[b]) /\ log[b][i + 1].ev = "short")}
  \cup {i \in At(b, "retry") : log[b][i].id = j}

\* Positions of log[b] at which stage j was entered; stage N + 1 of a chain
\* of N stages is the transport unit.
Entries(b, j) ==
  IF j = Len(run[b].chain) THEN At(b, "transport")
  ELSE {i \in At(b, "enter") : log[b][i].id = j}

\* The call chain of a request under retrying stages.
RetryLaw ==
  \A b \in Bs :
    Invoked(b) =>
      LET N == Len(run[b].chain) - 1
      IN  /\ N = Size(middleware_stack)
          /\ run[b].ext = builders[b].extensions
          \* every inward call enters the next stage of the stack
          /\ \A j \in 1..N : \A p \in Delegations(b, j) :
               IF p = Len(log[b]) THEN run[b].pc = "calling" /\ NextStage(b) \in {0, j + 1}
               ELSE p + 1 \in Entries(b, j + 1)
          \* a stage is entered as often as the stage outside it called inward
          /\ run[b].pc = "done" =>
               \A j \in 1..N : Count(Entries(b, j + 1)) = Count(Delegations(b, j))
          \* when only Lk calls inward more than once and no stage declines
          /\ \A k \in 1..N :
               /\ run[b].pc = "done"
               /\ At(b, "short") = {}
               /\ \A i \in At(b, "retry") : log[b][i].id = k
               => LET m == Count(Delegations(b, k))
                  IN  /\ m = 1 + Count(At(b, "retry"))
                      /\ \A j \in 1..k : Count(Entries(b, j)) = 1
                      /\ \A j \in (k + 1)..(N + 1) : Count(Entries(b, j)) = m
          \* initialisers, materialization and composition ran once
          /\ Count(At(b, "build")) = 1
          /\ Count(At(b, "compose")) = 1
          /\ Count(At(b, "invoke")) = 1
          /\ \A i \in 1..Size(initialiser_stack) : InitCount(b, i) = 1
          /\ \A i \in At(b, "init") \cup At(b, "build") : \A r \in At(b, "retry") : i < r

\* C17: when stage Lk calls inward m times within one send, each inward call
\* enters L(k+1) and, through stages that delegate once, L(k+2), ..., LN and
\* the transport unit in stack order, so each of them is entered m times
\* (not at all when Lk declines); every attempt is handed the same bag, in
\* which the values written so far are still present (the bag is destroyed
\* only when send returns); the initialiser chain
\* and the materialization of the request are not run again.
C17_Retry ==
  /\ []RetryLaw
  /\ [][\A b \in Bs :
          run[b].pc \notin {"builder", "done"} =>
            /\ run'[b].ext = run[b].ext
            /\ builders'[b] = builders[b]
            /\ run'[b].pc # "done" =>
                 \A t \in Types :
                   exts[run[b].ext][t] # Absent => exts'[run[b].ext][t] # Absent
            /\ run[b].pc = "returning" /\ run'[b].pc = "calling" =>
                 /\ exts' = exts
                 /\ run'[b].depth = run[b].depth
                 /\ run'[b].chain = run[b].chain
       ]_vars

C17_Witness ==
  \E b \in Bs :
    /\ run[b].pc = "returning"
    /\ run[b].depth = 0
    /\ Len(run[b].chain) = 3
    /\ At(b, "short") = {}
    /\ \E r \in At(b, "retry") :
         /\ log[b][r].id = 1
         /\ log[b][r].res = Err("Transport", 0)
    /\ Count(Entries(b, 1)) = 1
    /\ Count(Entries(b, 2)) = 2
    /\ Count(Entries(b, 3)) = 2
    /\ BagOf(b)["A"] = Val("mw", 2, b)
    /\ run[b].ret = Response

====
